---- MODULE Spec2Model ----
(***************************************************************************)
(* EmoGo backend (src/main.py): a FastAPI service over a MongoDB database.  *)
(* The database holds the collections gps_coordinates, sentiments, vlogs    *)
(* and counters.  Every request handler is a coroutine: it runs atomically  *)
(* from one await to the next, and each awaited store command is one atomic *)
(* step of the store.  Requests interleave at their awaits.                 *)
(*                                                                          *)
(* Python strings are sequences of one-character strings.  The ObjectId     *)
(* that insert_one adds as "_id" is left out of the documents: no handler   *)
(* reads it except to stringify it for display.  Failing store commands     *)
(* are modelled for create_all_data, in SpecCreate; the variable hist and   *)
(* the request fields seen, wrote, seq, failedAt, quiet and afterClear      *)
(* record the history of an execution and are read by no handler.           *)
(***************************************************************************)
EXTENDS Integers, Sequences, FiniteSets, TLC

\* ------------------------------------------------------------------ bounds
\* Requests of an execution of Spec (submissions, clear-all, exports).
NumReq == 3
\* Requests of an execution of SpecCreate (submissions only).
MaxCreates == 3
\* Store commands that fail in an execution of SpecCreate.
MaxFaults == 1
\* Requests of an execution of SpecIO (submissions, exports, video downloads).
IoReqs == 2
\* Requests of an execution of SpecFmt (submissions on a counter already in use).
FmtReqs == 1

\* -------------------------------------------------------- program constants
\* str(entry_id).zfill(4)
ZfillWidth == 4
\* find().to_list(1000)
ToListLength == 1000

\* ----------------------------------------------------------------- strings
Digits == <<"0", "1", "2", "3", "4", "5", "6", "7", "8", "9">>

IsDigit(c) == \E i \in 1..10 : Digits[i] = c

DigitVal(c) == (CHOOSE i \in 1..10 : Digits[i] = c) - 1

RECURSIVE StrInt(_)
\* str(n) for an integer n >= 0
StrInt(n) == IF n < 10 THEN <<Digits[n + 1]>>
             ELSE StrInt(n \div 10) \o <<Digits[(n % 10) + 1]>>

RECURSIVE ZfillTrunc(_, _)
\* a formatter that keeps exactly `width` characters, the low-order ones
ZfillTrunc(s, width) ==
    IF Len(s) > width THEN SubSeq(s, Len(s) - width + 1, Len(s))
    ELSE IF Len(s) = width THEN s
    ELSE ZfillTrunc(<<"0">> \o s, width)

RECURSIVE Zfill(_, _)
\* str.zfill(width) of a string of digits (no sign)
Zfill(s, width) == IF Len(s) >= width THEN s ELSE Zfill(<<"0">> \o s, width)

\* s.startswith(p)
StartsWith(s, p) == Len(s) >= Len(p) /\ SubSeq(s, 1, Len(p)) = p

RECURSIVE ReplaceZ(_)
\* s.replace('Z', '+00:00')
ReplaceZ(s) ==
    IF s = <<>> THEN <<>>
    ELSE (IF Head(s) = "Z" THEN <<"+", "0", "0", ":", "0", "0">> ELSE <<Head(s)>>)
         \o ReplaceZ(Tail(s))

\* the value of the two digits at s[i], s[i+1], or -1
Num2(s, i) == IF IsDigit(s[i]) /\ IsDigit(s[i + 1])
              THEN 10 * DigitVal(s[i]) + DigitVal(s[i + 1]) ELSE -1

\* the days of month m of year y
DaysIn(y, m) ==
    IF m = 2 THEN (IF y % 4 = 0 /\ (y % 100 # 0 \/ y % 400 = 0) THEN 29 ELSE 28)
    ELSE IF m \in {4, 6, 9, 11} THEN 30 ELSE 31

\* YYYY-MM-DD at s[1..10]
IsDate(s) ==
    /\ Len(s) >= 10
    /\ \A i \in 1..4 : IsDigit(s[i])
    /\ \E i \in 1..4 : s[i] # "0"
    /\ s[5] = "-" /\ s[8] = "-"
    /\ Num2(s, 6) \in 1..12
    /\ Num2(s, 9) \in 1..DaysIn(100 * Num2(s, 1) + Num2(s, 3), Num2(s, 6))

\* HH:MM:SS at s[i..i+7]
IsTime(s, i) ==
    /\ Len(s) >= i + 7
    /\ Num2(s, i) \in 0..23
    /\ s[i + 2] = ":" /\ Num2(s, i + 3) \in 0..59
    /\ s[i + 5] = ":" /\ Num2(s, i + 6) \in 0..59

\* +HH:MM or -HH:MM at s[i..i+5]
IsOffset(s, i) ==
    /\ Len(s) = i + 5
    /\ s[i] \in {"+", "-"}
    /\ Num2(s, i + 1) \in 0..23
    /\ s[i + 3] = ":" /\ Num2(s, i + 4) \in 0..59

Midnight == <<"0", "0", ":", "0", "0", ":", "0", "0">>

\* datetime.fromisoformat(s) accepts s: the forms YYYY-MM-DD,
\* YYYY-MM-DD?HH:MM:SS and YYYY-MM-DD?HH:MM:SS+HH:MM (? any one character)
IsIso(s) ==
    /\ IsDate(s)
    /\ \/ Len(s) = 10
       \/ IsTime(s, 12) /\ (Len(s) = 19 \/ IsOffset(s, 20))

\* datetime.fromisoformat(s) for an accepted s: <<"datetime", date, time, offset>>
FromIso(s) ==
    <<"datetime",
      SubSeq(s, 1, 10),
      IF Len(s) = 10 THEN Midnight ELSE SubSeq(s, 12, 19),
      IF Len(s) > 19 THEN SubSeq(s, 20, Len(s)) ELSE <<>> >>

IsDatetime(v) == Len(v) = 4 /\ v[1] = "datetime"

\* datetime.isoformat()
IsoFormat(d) == d[2] \o <<"T">> \o d[3] \o d[4]

\* ------------------------------------------------------------------ inputs
\* Python's None, where a string may stand
None == <<"None">>

T_canonical == <<"2", "0", "2", "4", "-", "0", "1", "-", "0", "1", "T", "1", "0", ":", "0", "0", ":", "0", "0">>
T_zulu == <<"2", "0", "2", "4", "-", "0", "1", "-", "0", "1", "T", "1", "0", ":", "0", "0", ":", "0", "0", "Z">>
T_space == <<"2", "0", "2", "4", "-", "0", "1", "-", "0", "1", " ", "1", "0", ":", "0", "0", ":", "0", "0">>
T_date == <<"2", "0", "2", "4", "-", "0", "1", "-", "0", "1">>
T_text == <<"n", "o", "o", "n">>

U_https == <<"h", "t", "t", "p", "s", ":", "/", "/", "e", "/", "v">>
U_file == <<"f", "i", "l", "e", ":", "/", "/", "/", "v">>
U_content == <<"c", "o", "n", "t", "e", "n", "t", ":", "/", "/", "v">>
U_nearfile == <<"f", "i", "l", "e", ":", "/", "v">>
U_empty == <<>>

\* the request bodies a client may post (EmoGoData)
EmoGoData ==
    { [NAME |-> <<"a">>, TIME |-> T_canonical, SENTIMENT |-> <<"G">>, LAT |-> 25,
       LON |-> 121, VIDEO_LINK |-> U_https, ACTIVITY |-> <<"r">>],
      [NAME |-> <<"b">>, TIME |-> T_zulu, SENTIMENT |-> <<"B">>, LAT |-> 24,
       LON |-> 120, VIDEO_LINK |-> U_file, ACTIVITY |-> None],
      [NAME |-> <<"a">>, TIME |-> T_space, SENTIMENT |-> <<"G">>, LAT |-> 25,
       LON |-> 121, VIDEO_LINK |-> U_content, ACTIVITY |-> None],
      [NAME |-> <<"b">>, TIME |-> T_date, SENTIMENT |-> <<"B">>, LAT |-> 24,
       LON |-> 120, VIDEO_LINK |-> U_nearfile, ACTIVITY |-> <<"r">>],
      [NAME |-> <<"a">>, TIME |-> T_text, SENTIMENT |-> <<"G">>, LAT |-> 25,
       LON |-> 121, VIDEO_LINK |-> U_empty, ACTIVITY |-> <<"r">>] }

\* the entry_id path parameters a client may ask a video for
VideoIds == { Zfill(StrInt(n), ZfillWidth) : n \in 1..IoReqs } \cup { <<"1">> }

Collections == {"sentiments", "gps_coordinates", "vlogs"}

COUNTER_KEY == "emogo_entry_id"

\* ------------------------------------------------------------------- state
VARIABLES
    gps_coordinates,  \* app.mongodb["gps_coordinates"], in insertion order
    sentiments,       \* app.mongodb["sentiments"], in insertion order
    vlogs,            \* app.mongodb["vlogs"], in insertion order
    counters,         \* app.mongodb["counters"], a set of documents
    req,              \* the requests: handler, position, locals, response
    faults,           \* store commands that may still fail
    hist              \* history of the execution, read by the properties only

vars == <<gps_coordinates, sentiments, vlogs, counters, req, faults, hist>>

store == <<gps_coordinates, sentiments, vlogs, counters>>

Idle == [kind |-> "idle", pc |-> "idle", data |-> <<>>, arg |-> <<>>,
         entry_id |-> <<>>, status |-> 0, location |-> <<>>, found |-> {},
         pend |-> {}, got |-> <<>>, seen |-> {}, wrote |-> {}, seq |-> 0,
         failedAt |-> "", quiet |-> FALSE, afterClear |-> FALSE]

InFlight(rq) == rq.kind # "idle" /\ rq.pc # "done"

\* ---------------------------------------------------------- store commands
\* the counter documents a filter {"_id": key} matches
Matching(coll, key) == { d \in coll : d._id = key }

\* {"$set": {"seq": 1}} in the place of {"$inc": {"seq": 1}}
IncSeqSet(coll, key) == [_id |-> key, seq |-> 1]

\* the document after {"$inc": {"seq": 1}} with upsert=True
IncSeq(coll, key) ==
    IF Matching(coll, key) = {} THEN [_id |-> key, seq |-> 1]
    ELSE LET d == CHOOSE x \in Matching(coll, key) : TRUE
         IN [d EXCEPT !.seq = @ + 1]

\* the counters collection after find_one_and_update
UpdatedCounters(coll, key) == (coll \ Matching(coll, key)) \cup {IncSeq(coll, key)}

\* find_one_and_update with return_document=False: the document before the update
ReturnedBefore(coll, key) == Matching(coll, key)

\* what find_one_and_update returns with return_document=True: {} is None
ReturnedDocument(coll, key) == {IncSeq(coll, key)}

\* get_next_sequence_value raises on this reply of the store
SequenceRaises(result) == result = {} \/ \E d \in result : "seq" \notin DOMAIN d

\* get_next_sequence_value returns this on a reply it accepts
SequenceValue(result) == (CHOOSE d \in result : TRUE).seq

\* find_one({"entry_id": id}): the first match in natural order; {} is None
FindOne(coll, id) ==
    LET hits == { i \in 1..Len(coll) : coll[i].entry_id = id }
    IN IF hits = {} THEN {}
       ELSE {coll[CHOOSE i \in hits : \A j \in hits : i <= j]}

\* find().to_list(length)
ToList(coll, length) == IF Len(coll) <= length THEN coll ELSE SubSeq(coll, 1, length)

\* delete_many({}) on a record collection
DeleteMany(coll) == <<>>

\* a counter reset that decrements seq and keeps the document
DecrementCounters(coll) == { [d EXCEPT !.seq = @ - 1] : d \in coll }

\* delete_many({}) on the counters collection
DeleteManyCounters(coll) == {}

\* ------------------------------------------------------------ create_all_data
\* entry_id_str = str(entry_id).zfill(4)
EntryIdStr(entry_id) == Zfill(StrInt(entry_id), ZfillWidth)

GpsDoc(id, data) ==
    [entry_id |-> id, user_name |-> data.NAME, timestamp |-> data.TIME,
     latitude |-> data.LAT, longitude |-> data.LON]

SentimentDoc(id, data) ==
    [entry_id |-> id, user_name |-> data.NAME, timestamp |-> data.TIME,
     sentiment_category |-> data.SENTIMENT, activity |-> data.ACTIVITY]

VlogDoc(id, data) ==
    [entry_id |-> id, user_name |-> data.NAME, timestamp |-> data.TIME,
     video_url |-> data.VIDEO_LINK]

\* a handler that swallows the exception and goes on with the sequence value 0
OnSequenceErrorGoOn(rq) ==
    [rq EXCEPT !.pc = "ins_gps_coordinates", !.failedAt = "alloc",
               !.entry_id = Zfill(StrInt(0), ZfillWidth)]

\* the handler's reaction to get_next_sequence_value raising: HTTPException(500)
OnSequenceError(rq) == [rq EXCEPT !.pc = "done", !.status = 500, !.failedAt = "alloc"]

\* a handler that writes the vlog right after the coordinates
AfterInsertSkip(coll) == IF coll = "gps_coordinates" THEN "ins_vlogs" ELSE "done"

\* where the handler goes after the insert into coll
AfterInsert(coll) ==
    CASE coll = "gps_coordinates" -> "ins_sentiments"
      [] coll = "sentiments" -> "ins_vlogs"
      [] coll = "vlogs" -> "done"

\* a handler that swallows the exception of insert_one and goes on
OnInsertErrorGoOn(rq, coll) ==
    [rq EXCEPT !.pc = AfterInsert(coll), !.failedAt = coll,
               !.status = IF AfterInsert(coll) = "done" THEN 201 ELSE 0]

\* an exception of insert_one leaves the handler: the framework answers 500
OnInsertError(rq, coll) == [rq EXCEPT !.pc = "done", !.status = 500, !.failedAt = coll]


\* ------------------------------------------------------------------- export
\* serialize_mongodb_data without .replace('Z', '+00:00')
SerializeDocKeepZ(doc) ==
    IF doc.timestamp # <<>> /\ doc.timestamp # None /\ IsIso(doc.timestamp)
    THEN [doc EXCEPT !.timestamp = FromIso(doc.timestamp)]
    ELSE doc

\* serialize_mongodb_data on one document
SerializeDoc(doc) ==
    IF doc.timestamp # <<>> /\ doc.timestamp # None /\ IsIso(ReplaceZ(doc.timestamp))
    THEN [doc EXCEPT !.timestamp = FromIso(ReplaceZ(doc.timestamp))]
    ELSE doc

serialize_mongodb_data(doc_list) == [i \in 1..Len(doc_list) |-> SerializeDoc(doc_list[i])]

\* [d for d in data if d.get("entry_id")]
RECURSIVE FilterEntryId(_)
FilterEntryId(docs) ==
    IF docs = <<>> THEN <<>>
    ELSE (IF Head(docs).entry_id # <<>> THEN <<Head(docs)>> ELSE <<>>)
         \o FilterEntryId(Tail(docs))

\* the code point of a character of an entry_id
Ord(c) == IF IsDigit(c) THEN 48 + DigitVal(c) ELSE 128

\* a < b for Python strings
RECURSIVE StrLess(_, _)
StrLess(a, b) ==
    IF b = <<>> THEN FALSE
    ELSE IF a = <<>> THEN TRUE
    ELSE IF Head(a) = Head(b) THEN StrLess(Tail(a), Tail(b))
    ELSE Ord(Head(a)) < Ord(Head(b))

\* docs, sorted, with one more document put after its equals (a stable sort)
RECURSIVE InsertSorted(_, _)
InsertSorted(docs, d) ==
    IF docs = <<>> THEN <<d>>
    ELSE IF StrLess(d.entry_id, Head(docs).entry_id) THEN <<d>> \o docs
    ELSE <<Head(docs)>> \o InsertSorted(Tail(docs), d)

\* data.sort(key=lambda x: x.get('entry_id', ''))
RECURSIVE SortByEntryId(_)
SortByEntryId(docs) ==
    IF docs = <<>> THEN <<>>
    ELSE InsertSorted(SortByEntryId(SubSeq(docs, 1, Len(docs) - 1)), docs[Len(docs)])

\* what both export handlers make of the documents read from one collection
Normalized(docs) == SortByEntryId(FilterEntryId(serialize_mongodb_data(docs)))

\* the JSON response renders a datetime with isoformat()
JsonDoc(doc) ==
    IF IsDatetime(doc.timestamp) THEN [doc EXCEPT !.timestamp = IsoFormat(@)] ELSE doc

\* a list of the dict download_all_json returns, as the JSON body carries it
JsonList(docs) == [i \in 1..Len(docs) |-> JsonDoc(docs[i])]

\* -------------------------------------------------------------- download_video
\* download_video checking the file:// scheme only
VideoResponseFileOnly(vlog_entry) ==
    IF vlog_entry # {} /\ (CHOOSE d \in vlog_entry : TRUE).video_url # <<>>
    THEN LET video_url == (CHOOSE d \in vlog_entry : TRUE).video_url
         IN IF StartsWith(video_url, <<"f", "i", "l", "e", ":", "/", "/">>)
            THEN [status |-> 500, location |-> <<>>]
            ELSE [status |-> 302, location |-> video_url]
    ELSE [status |-> 404, location |-> <<>>]

\* the response of download_video to the result of find_one
VideoResponse(vlog_entry) ==
    IF vlog_entry # {} /\ (CHOOSE d \in vlog_entry : TRUE).video_url # <<>>
    THEN LET video_url == (CHOOSE d \in vlog_entry : TRUE).video_url
         IN IF \/ StartsWith(video_url, <<"f", "i", "l", "e", ":", "/", "/">>)
               \/ StartsWith(video_url, <<"c", "o", "n", "t", "e", "n", "t", ":", "/", "/">>)
            THEN [status |-> 500, location |-> <<>>]
            ELSE [status |-> 302, location |-> video_url]
    ELSE [status |-> 404, location |-> <<>>]

\* ------------------------------------------------------------------ actions
Reqs == DOMAIN req

NoHistory == [sinceClear |-> FALSE, quiet |-> FALSE]

\* request r arrives next: the requests are numbered in their order of arrival
Arrives(r) == req[r].kind = "idle" /\ \A q \in Reqs : q < r => req[q].kind # "idle"

At(r, kind, pc) == req[r].kind = kind /\ req[r].pc = pc

\* the handler's locals once get_next_sequence_value has answered `result`
Allocated(rq, result) ==
    IF SequenceRaises(result) THEN OnSequenceError(rq)
    ELSE [rq EXCEPT !.pc = "ins_gps_coordinates",
                    !.seq = SequenceValue(result),
                    !.entry_id = EntryIdStr(SequenceValue(result))]

\* POST /api/v1/data/all with a valid body: model_dump, then
\* await get_next_sequence_value("emogo_entry_id"), the store answering
CreateAlloc(r, data) ==
    /\ Arrives(r)
    /\ req' = [q \in Reqs |->
                 IF q = r
                 THEN Allocated([Idle EXCEPT !.kind = "create", !.data = data],
                                ReturnedDocument(counters, COUNTER_KEY))
                 ELSE IF InFlight(req[q])
                      THEN [req[q] EXCEPT !.quiet = FALSE, !.afterClear = FALSE]
                      ELSE req[q]]
    /\ counters' = UpdatedCounters(counters, COUNTER_KEY)
    /\ hist' = [hist EXCEPT !.sinceClear = FALSE, !.quiet = FALSE]
    /\ UNCHANGED <<gps_coordinates, sentiments, vlogs, faults>>

\* the same request, but find_one_and_update raises, or answers None or a
\* document without seq; the store may or may not have applied the update
CreateAllocFault(r, data, reply, applied) ==
    /\ Arrives(r)
    /\ faults > 0
    /\ LET result == IF reply = "noseq" THEN {[_id |-> COUNTER_KEY]} ELSE {}
       IN /\ reply = "raise" \/ SequenceRaises(result)
          /\ req' = [req EXCEPT ![r] =
                       OnSequenceError([Idle EXCEPT !.kind = "create", !.data = data])]
    /\ counters' = IF applied THEN UpdatedCounters(counters, COUNTER_KEY) ELSE counters
    /\ faults' = faults - 1
    /\ UNCHANGED <<gps_coordinates, sentiments, vlogs, hist>>

Inserted(r, coll) ==
    [req EXCEPT ![r] = [@ EXCEPT !.pc = AfterInsert(coll),
                                 !.wrote = @ \cup {coll},
                                 !.status = IF AfterInsert(coll) = "done" THEN 201 ELSE 0]]

\* await app.mongodb["gps_coordinates"].insert_one(gps_doc)
InsertGps(r) ==
    /\ At(r, "create", "ins_gps_coordinates")
    /\ gps_coordinates' = Append(gps_coordinates, GpsDoc(req[r].entry_id, req[r].data))
    /\ req' = Inserted(r, "gps_coordinates")
    /\ UNCHANGED <<sentiments, vlogs, counters, faults, hist>>

\* await app.mongodb["sentiments"].insert_one(sentiment_doc)
InsertSentiment(r) ==
    /\ At(r, "create", "ins_sentiments")
    /\ sentiments' = Append(sentiments, SentimentDoc(req[r].entry_id, req[r].data))
    /\ req' = Inserted(r, "sentiments")
    /\ UNCHANGED <<gps_coordinates, vlogs, counters, faults, hist>>

\* await app.mongodb["vlogs"].insert_one(vlog_doc), and the 201 response
InsertVlog(r) ==
    /\ At(r, "create", "ins_vlogs")
    /\ vlogs' = Append(vlogs, VlogDoc(req[r].entry_id, req[r].data))
    /\ req' = Inserted(r, "vlogs")
    /\ UNCHANGED <<gps_coordinates, sentiments, counters, faults, hist>>

\* insert_one raises; the store may or may not have written the document
InsertFault(r, coll, applied) ==
    /\ At(r, "create", "ins_" \o coll)
    /\ faults > 0
    /\ gps_coordinates' =
         IF applied /\ coll = "gps_coordinates"
         THEN Append(gps_coordinates, GpsDoc(req[r].entry_id, req[r].data))
         ELSE gps_coordinates
    /\ sentiments' =
         IF applied /\ coll = "sentiments"
         THEN Append(sentiments, SentimentDoc(req[r].entry_id, req[r].data))
         ELSE sentiments
    /\ vlogs' =
         IF applied /\ coll = "vlogs"
         THEN Append(vlogs, VlogDoc(req[r].entry_id, req[r].data))
         ELSE vlogs
    /\ req' = [req EXCEPT ![r] =
                 OnInsertError([@ EXCEPT !.wrote = IF applied THEN @ \cup {coll} ELSE @], coll)]
    /\ faults' = faults - 1
    /\ UNCHANGED <<counters, hist>>

\* DELETE /api/v1/data/clear-all: await app.mongodb["sentiments"].delete_many({})
ClearSentiments(r) ==
    /\ Arrives(r)
    /\ sentiments' = DeleteMany(sentiments)
    /\ req' = [req EXCEPT ![r] =
                 [Idle EXCEPT !.kind = "clear", !.pc = "del_gps_coordinates",
                              !.quiet = \A q \in Reqs :
                                          ~(req[q].kind = "create" /\ InFlight(req[q]))]]
    /\ UNCHANGED <<gps_coordinates, vlogs, counters, faults, hist>>

\* clear_all_data without the delete on gps_coordinates
ClearGpsSkipped(r) ==
    /\ At(r, "clear", "del_gps_coordinates")
    /\ req' = [req EXCEPT ![r].pc = "del_vlogs"]
    /\ UNCHANGED <<gps_coordinates, sentiments, vlogs, counters, faults, hist>>

\* await app.mongodb["gps_coordinates"].delete_many({})
ClearGps(r) ==
    /\ At(r, "clear", "del_gps_coordinates")
    /\ gps_coordinates' = DeleteMany(gps_coordinates)
    /\ req' = [req EXCEPT ![r].pc = "del_vlogs"]
    /\ UNCHANGED <<sentiments, vlogs, counters, faults, hist>>

\* await app.mongodb["vlogs"].delete_many({})
ClearVlogs(r) ==
    /\ At(r, "clear", "del_vlogs")
    /\ vlogs' = DeleteMany(vlogs)
    /\ req' = [req EXCEPT ![r].pc = "del_counters"]
    /\ UNCHANGED <<gps_coordinates, sentiments, counters, faults, hist>>

\* await app.mongodb["counters"].delete_many({}), and the 200 response
ClearCounters(r) ==
    /\ At(r, "clear", "del_counters")
    /\ counters' = DeleteManyCounters(counters)
    /\ req' = [req EXCEPT ![r].pc = "done", ![r].status = 200]
    /\ hist' = [hist EXCEPT !.sinceClear = TRUE, !.quiet = @ \/ req[r].quiet]
    /\ UNCHANGED <<gps_coordinates, sentiments, vlogs, faults>>

CollectionOf(c) ==
    CASE c = "sentiments" -> sentiments
      [] c = "gps_coordinates" -> gps_coordinates
      [] c = "vlogs" -> vlogs

\* what an export returns (download_all_json) or hands to the template
\* (export_all_data) when its three reads returned these documents
ExportResponse(got) ==
    [sentiments |-> Normalized(got["sentiments"]),
     gps |-> Normalized(got["gps_coordinates"]),
     vlogs |-> Normalized(got["vlogs"])]

\* the handler's locals once the read of collection c has returned
HasRead(rq, c) ==
    LET got == [rq.got EXCEPT ![c] = ToList(CollectionOf(c), ToListLength)]
    IN IF rq.pend = {c}
       THEN [rq EXCEPT !.pc = "done", !.status = 200, !.pend = {},
                       !.got = ExportResponse(got)]
       ELSE [rq EXCEPT !.pend = @ \ {c}, !.got = got]

\* GET /data/download/json or GET /data/export (the two handlers read and
\* normalize alike): the three find().to_list(1000) are issued together (asyncio.gather) and the
\* store answers them in any order; this is the first answer
ExportFirstRead(r, c) ==
    /\ Arrives(r)
    /\ req' = [req EXCEPT ![r] =
                 HasRead([Idle EXCEPT !.kind = "export", !.pc = "read",
                                      !.pend = Collections,
                                      !.got = [x \in Collections |-> <<>>],
                                      !.seen = { q \in Reqs : At(q, "create", "done")
                                                              /\ req[q].status = 201 },
                                      !.quiet = hist.quiet,
                                      !.afterClear = hist.sinceClear], c)]
    /\ UNCHANGED <<store, faults, hist>>

\* the store answers another read; after the last one the handler
\* serializes, filters, sorts and responds
ExportRead(r, c) ==
    /\ At(r, "export", "read")
    /\ c \in req[r].pend
    /\ req' = [req EXCEPT ![r] = HasRead(@, c)]
    /\ UNCHANGED <<store, faults, hist>>

\* GET /download/video/{entry_id}: await find_one, then the response
DownloadVideo(r, entry_id) ==
    /\ Arrives(r)
    /\ LET vlog_entry == FindOne(vlogs, entry_id)
       IN req' = [req EXCEPT ![r] =
                    [Idle EXCEPT !.kind = "video", !.pc = "done", !.arg = entry_id,
                                 !.found = vlog_entry,
                                 !.status = VideoResponse(vlog_entry).status,
                                 !.location = VideoResponse(vlog_entry).location]]
    /\ UNCHANGED <<store, faults, hist>>

\* ----------------------------------------------------------- specifications
\* one request body, for the executions whose subject is the interleaving
OneBody == { d \in EmoGoData : d.TIME = T_text }

InitWith(n, f, c) ==
    /\ gps_coordinates = <<>>
    /\ sentiments = <<>>
    /\ vlogs = <<>>
    /\ counters = c
    /\ req = [r \in 1..n |-> Idle]
    /\ faults = f
    /\ hist = NoHistory

\* Spec: submissions, clear-all and exports, interleaved, on a fresh database
Init == InitWith(NumReq, 0, {})

Next ==
    \/ \E r \in Reqs, data \in OneBody : CreateAlloc(r, data)
    \/ \E r \in Reqs : InsertGps(r)
    \/ \E r \in Reqs : InsertSentiment(r)
    \/ \E r \in Reqs : InsertVlog(r)
    \/ \E r \in Reqs : ClearSentiments(r)
    \/ \E r \in Reqs : ClearGps(r)
    \/ \E r \in Reqs : ClearVlogs(r)
    \/ \E r \in Reqs : ClearCounters(r)
    \/ \E r \in Reqs, c \in Collections : ExportFirstRead(r, c)
    \/ \E r \in Reqs, c \in Collections : ExportRead(r, c)

Spec == Init /\ [][Next]_vars

\* SpecCreate: submissions only, interleaved, with failing store commands
InitCreate == InitWith(MaxCreates, MaxFaults, {})

NextCreate ==
    \/ \E r \in Reqs, data \in OneBody : CreateAlloc(r, data)
    \/ \E r \in Reqs, data \in OneBody, reply \in {"raise", "none", "noseq"},
          applied \in BOOLEAN : CreateAllocFault(r, data, reply, applied)
    \/ \E r \in Reqs : InsertGps(r)
    \/ \E r \in Reqs : InsertSentiment(r)
    \/ \E r \in Reqs : InsertVlog(r)
    \/ \E r \in Reqs, coll \in Collections, applied \in BOOLEAN :
          InsertFault(r, coll, applied)

SpecCreate == InitCreate /\ [][NextCreate]_vars

\* SpecIO: submissions of every body, exports and video downloads
InitIO == InitWith(IoReqs, 0, {})

NextIO ==
    \/ \E r \in Reqs, data \in EmoGoData : CreateAlloc(r, data)
    \/ \E r \in Reqs : InsertGps(r)
    \/ \E r \in Reqs : InsertSentiment(r)
    \/ \E r \in Reqs : InsertVlog(r)
    \/ \E r \in Reqs, c \in Collections : ExportFirstRead(r, c)
    \/ \E r \in Reqs, c \in Collections : ExportRead(r, c)
    \/ \E r \in Reqs, entry_id \in VideoIds : DownloadVideo(r, entry_id)

SpecIO == InitIO /\ [][NextIO]_vars

\* SpecFmt: submissions on a database in which earlier submissions, their
\* inserts having failed, left the counter at one of these values (0: no
\* counter document)
FmtSeqs == (0..40) \cup (95..104) \cup (995..1004) \cup (9990..10009)
           \cup {12344, 99998, 99999}

InitFmt ==
    \E n \in FmtSeqs :
        InitWith(FmtReqs, 0, IF n = 0 THEN {} ELSE {[_id |-> COUNTER_KEY, seq |-> n]})

NextFmt ==
    \/ \E r \in Reqs, data \in OneBody : CreateAlloc(r, data)
    \/ \E r \in Reqs : InsertGps(r)
    \/ \E r \in Reqs : InsertSentiment(r)
    \/ \E r \in Reqs : InsertVlog(r)

SpecFmt == InitFmt /\ [][NextFmt]_vars

\* ------------------------------------------------------------------ properties
Creates == { r \in Reqs : req[r].kind = "create" }

Exports == { r \in Reqs : req[r].kind = "export" /\ req[r].pc = "done" }

\* the submissions whose get_next_sequence_value returned a value
Returned == { r \in Creates : req[r].seq > 0 }

EntryIds(coll) == { coll[i].entry_id : i \in 1..Len(coll) }

Positions(coll, id) == { i \in 1..Len(coll) : coll[i].entry_id = id }

\* seq of the counter document, 0 without a document
CounterSeq == IF counters = {} THEN 0 ELSE (CHOOSE d \in counters : TRUE).seq

RECURSIVE IntOf(_)
\* the integer a string of digits denotes
IntOf(s) == IF s = <<>> THEN 0
            ELSE 10 * IntOf(SubSeq(s, 1, Len(s) - 1)) + DigitVal(s[Len(s)])

RECURSIVE NumDigits(_)
NumDigits(n) == IF n < 10 THEN 1 ELSE 1 + NumDigits(n \div 10)

\* C1: as long as no store command has failed, the submissions that have
\* called get_next_sequence_value on the fresh counter have all got a value,
\* and the N values returned are exactly 1..N (none twice, none skipped).
C1_AllocationsDense ==
    faults = MaxFaults =>
        /\ Returned = Creates
        /\ { req[r].seq : r \in Returned } = 1..Cardinality(Returned)

\* C1 witness: three allocations have returned, two of the callers still in flight.
C1_Witness ==
    /\ faults = MaxFaults
    /\ Cardinality(Returned) >= 3
    /\ Cardinality({ r \in Returned : InFlight(req[r]) }) >= 2

\* the timestamp the JSON export shows for each submitted TIME of EmoGoData
ExpectedJsonTime(t) ==
    CASE t = T_canonical -> T_canonical
      [] t = T_zulu -> <<"2", "0", "2", "4", "-", "0", "1", "-", "0", "1", "T", "1", "0", ":", "0", "0", ":", "0", "0", "+", "0", "0", ":", "0", "0">>
      [] t = T_space -> T_canonical
      [] t = T_date -> <<"2", "0", "2", "4", "-", "0", "1", "-", "0", "1", "T", "0", "0", ":", "0", "0", ":", "0", "0">>
      [] t = T_text -> T_text

\* a finished export e shows submission c as one record per list, with the
\* submitted values and with timestamp time(TIME)
ShowsEntry(e, c, time(_)) ==
    LET id == req[c].entry_id
        d == req[c].data
        gps == JsonList(req[e].got.gps)
        sen == JsonList(req[e].got.sentiments)
        vlo == JsonList(req[e].got.vlogs)
    IN /\ Cardinality(Positions(gps, id)) = 1
       /\ Cardinality(Positions(sen, id)) = 1
       /\ Cardinality(Positions(vlo, id)) = 1
       /\ \A i \in Positions(gps, id) :
            /\ gps[i].user_name = d.NAME
            /\ gps[i].timestamp = time(d.TIME)
            /\ gps[i].latitude = d.LAT
            /\ gps[i].longitude = d.LON
       /\ \A i \in Positions(sen, id) :
            /\ sen[i].user_name = d.NAME
            /\ sen[i].timestamp = time(d.TIME)
            /\ sen[i].sentiment_category = d.SENTIMENT
            /\ sen[i].activity = d.ACTIVITY
       /\ \A i \in Positions(vlo, id) :
            /\ vlo[i].user_name = d.NAME
            /\ vlo[i].timestamp = time(d.TIME)
            /\ vlo[i].video_url = d.VIDEO_LINK

SameTime(t) == t

\* C2 as claimed: an export that follows a successful submission shows exactly
\* one gps, one sentiment and one vlog record with the returned entry_id, every
\* field equal to the submitted value, timestamp included.
C2_RoundTripVerbatim ==
    \A e \in Exports : \A c \in req[e].seen : ShowsEntry(e, c, SameTime)

\* C2 amended: without clear_all_data and with at most 1000 records per set,
\* the export shows exactly one record of each kind with the returned
\* entry_id; every field but timestamp equals the submitted value, and
\* timestamp is TIME itself when TIME is no ISO date or datetime, and otherwise
\* the isoformat() of the datetime parsed from TIME.
C2_RoundTripNormalizedTime ==
    \A e \in Exports : \A c \in req[e].seen :
        (/\ Len(gps_coordinates) <= ToListLength
         /\ Len(sentiments) <= ToListLength
         /\ Len(vlogs) <= ToListLength)
        => ShowsEntry(e, c, ExpectedJsonTime)

\* C2 witness: an export has followed a submission whose TIME ends in Z.
C2_Witness ==
    \E e \in Exports : \E c \in req[e].seen : req[c].data.TIME = T_zulu

\* a clear_all_data request answers in this step
ClearAnswers(r) == req[r].kind = "clear" /\ req[r].pc # "done" /\ req'[r].pc = "done"

AllEmpty(got) == got.sentiments = <<>> /\ got.gps = <<>> /\ got.vlogs = <<>>

\* C4 as claimed: once clear_all_data has returned success and while no
\* submission has started since, an export returns three empty lists and the
\* next allocation returns 1, whatever was in flight when clear_all_data ran.
C4_ClearThenEmpty ==
    /\ \A e \in Exports : req[e].afterClear => AllEmpty(req[e].got)
    /\ hist.sinceClear =>
           SequenceValue(ReturnedDocument(counters, COUNTER_KEY)) = 1

\* C4 amended: the same, provided no create_all_data request was in flight at
\* any time while that clear_all_data ran.
C4_QuietClearThenEmpty ==
    /\ \A e \in Exports : req[e].quiet => AllEmpty(req[e].got)
    /\ hist.quiet =>
           /\ gps_coordinates = <<>> /\ sentiments = <<>> /\ vlogs = <<>>
           /\ SequenceValue(ReturnedDocument(counters, COUNTER_KEY)) = 1

\* C4 witness: an export has answered after a clear_all_data that ran alone
\* on a store holding a complete entry.
C4_Witness ==
    /\ \E e \in Exports : req[e].quiet
    /\ \E c \in Creates : req[c].status = 201
    /\ hist.quiet

\* C5: the submissions have pairwise different entry_ids, and no record set
\* holds two records with the same entry_id.
C5_EntryIdsUnique ==
    /\ \A a, b \in Returned : a # b => req[a].entry_id # req[b].entry_id
    /\ \A id \in EntryIds(gps_coordinates) : Cardinality(Positions(gps_coordinates, id)) = 1
    /\ \A id \in EntryIds(sentiments) : Cardinality(Positions(sentiments, id)) = 1
    /\ \A id \in EntryIds(vlogs) : Cardinality(Positions(vlogs, id)) = 1

\* C5 witness: two submissions are complete and a third has written its
\* coordinates.
C5_Witness ==
    /\ Cardinality({ r \in Creates : req[r].status = 201 }) >= 2
    /\ Len(gps_coordinates) >= 3

\* the outcome the claim gives download_video on the vlogs collection `coll`
ClaimedVideoOutcome(coll, id) ==
    LET hits == Positions(coll, id)
        url == IF hits = {} THEN <<>>
               ELSE coll[CHOOSE i \in hits : \A j \in hits : i <= j].video_url
        local == \/ Len(url) >= 7 /\ SubSeq(url, 1, 7) = <<"f", "i", "l", "e", ":", "/", "/">>
                 \/ Len(url) >= 10 /\ SubSeq(url, 1, 10) = <<"c", "o", "n", "t", "e", "n", "t", ":", "/", "/">>
    IN IF url = <<>> THEN [status |-> 404, location |-> <<>>]
       ELSE IF local THEN [status |-> 500, location |-> <<>>]
       ELSE [status |-> 302, location |-> url]

\* C6: download_video changes nothing in the store, and answers 404 when no
\* vlog has the entry_id or the one found has an empty video_url, 500 without
\* a redirect when the video_url starts with file:// or content://, and
\* otherwise 302 with the video_url as its target.
C6_VideoOutcome ==
    [][\A r \in Reqs : (req[r].kind = "idle" /\ req'[r].kind = "video") =>
          /\ UNCHANGED store
          /\ req'[r].status = ClaimedVideoOutcome(vlogs, req'[r].arg).status
          /\ req'[r].location = ClaimedVideoOutcome(vlogs, req'[r].arg).location]_vars

\* C6 witness: a download has been refused for a content:// link.
C6_Witness ==
    \E r \in Reqs :
        /\ req[r].kind = "video" /\ req[r].status = 500
        /\ \E d \in req[r].found : d.video_url = U_content

\* C7: an entry_id is a string of digits that denotes the allocated integer,
\* 4 characters long for an integer below 10000 and as long as the integer's
\* decimal form from 10000 on; the three records a submission writes carry the
\* entry_id it returns.
C7_EntryIdFormat ==
    /\ \A r \in Returned :
          /\ \A i \in 1..Len(req[r].entry_id) : IsDigit(req[r].entry_id[i])
          /\ IntOf(req[r].entry_id) = req[r].seq
          /\ Len(req[r].entry_id) = IF req[r].seq < 10000 THEN 4 ELSE NumDigits(req[r].seq)
    /\ \A r \in Returned :
          /\ "gps_coordinates" \in req[r].wrote
                => req[r].entry_id \in EntryIds(gps_coordinates)
          /\ "sentiments" \in req[r].wrote => req[r].entry_id \in EntryIds(sentiments)
          /\ "vlogs" \in req[r].wrote => req[r].entry_id \in EntryIds(vlogs)
    /\ EntryIds(gps_coordinates) \cup EntryIds(sentiments) \cup EntryIds(vlogs)
          \subseteq { req[r].entry_id : r \in Returned }

\* C7 witness: the submission allocated 12345 is complete under the entry_id 12345.
C7_Witness ==
    \E r \in Returned :
        /\ req[r].seq = 12345
        /\ req[r].status = 201
        /\ req[r].entry_id = <<"1", "2", "3", "4", "5">>

\* the number of records of collection c the submissions wrote
Written(c) == Cardinality({ r \in Creates : c \in req[r].wrote })

\* C8: a submission whose sequence allocation failed has answered 500 and has
\* written to none of the three record sets, which hold the records of the
\* other submissions only.
C8_AllocFailureWritesNothing ==
    /\ \A r \in Creates : req[r].failedAt = "alloc" =>
          /\ req[r].pc = "done"
          /\ req[r].status = 500
          /\ req[r].wrote = {}
    /\ Len(gps_coordinates) = Written("gps_coordinates")
    /\ Len(sentiments) = Written("sentiments")
    /\ Len(vlogs) = Written("vlogs")

\* C8 witness: an allocation has failed while another submission has written
\* records.
C8_Witness ==
    /\ \E r \in Creates : req[r].failedAt = "alloc"
    /\ Len(gps_coordinates) >= 1 /\ Len(sentiments) >= 1

\* the record sets a submission writes before the one named
Before(coll) ==
    CASE coll = "gps_coordinates" -> {}
      [] coll = "sentiments" -> {"gps_coordinates"}
      [] coll = "vlogs" -> {"gps_coordinates", "sentiments"}

StoredIn(c, id) ==
    CASE c = "gps_coordinates" -> id \in EntryIds(gps_coordinates)
      [] c = "sentiments" -> id \in EntryIds(sentiments)
      [] c = "vlogs" -> id \in EntryIds(vlogs)

\* C9: a submission one of whose inserts failed has answered 500; the records
\* it wrote before are in the store, it has written to no later record set,
\* and the counter has not gone below the value it was allocated.
C9_PartialWriteStays ==
    \A r \in Creates : req[r].failedAt \in Collections =>
        /\ req[r].pc = "done"
        /\ req[r].status = 500
        /\ Before(req[r].failedAt) \subseteq req[r].wrote
        /\ req[r].wrote \subseteq Before(req[r].failedAt) \cup {req[r].failedAt}
        /\ \A c \in Collections :
              StoredIn(c, req[r].entry_id) <=> c \in req[r].wrote
        /\ CounterSeq >= req[r].seq

\* C9 witness: the insert into vlogs has failed after the two others succeeded.
C9_Witness ==
    \E r \in Creates :
        /\ req[r].failedAt = "vlogs"
        /\ req[r].wrote = {"gps_coordinates", "sentiments"}

\* C10: without clear_all_data, the entry_ids in vlogs are among those in
\* sentiments, which are among those in gps_coordinates, and every stored
\* entry_id denotes an integer from 1 to the counter's seq.
C10_WriteOrder ==
    /\ EntryIds(vlogs) \subseteq EntryIds(sentiments)
    /\ EntryIds(sentiments) \subseteq EntryIds(gps_coordinates)
    /\ \A id \in EntryIds(gps_coordinates) \cup EntryIds(sentiments) \cup EntryIds(vlogs) :
          IntOf(id) \in 1..CounterSeq

\* C10 witness: the three record sets hold different numbers of entries, an
\* insert having failed.
C10_Witness ==
    /\ Len(vlogs) < Len(sentiments)
    /\ Len(sentiments) < Len(gps_coordinates)
    /\ \E r \in Creates : req[r].failedAt \in Collections
====
